---- MODULE Spec2Model ----
(***************************************************************************)
(* Exact arithmetic of rings-rs (src/src/lib.rs): the dyadic fractions     *)
(* Dyadic(x, k) = x / 2^k and the ring RootTwo<T>(a, b) = a + b*sqrt(2)    *)
(* over T = i64 or T = Dyadic.                                             *)
(*                                                                         *)
(* A tuple struct S(u, v) is the pair <<u, v>>: field .0 is [1], field .1  *)
(* is [2].  Every operand set below keeps all intermediate values far      *)
(* inside i64, so no operation of the model overflows.                     *)
(***************************************************************************)
EXTENDS Integers, Sequences, FiniteSets, TLC

VARIABLES
    T,       \* coefficient type of the RootTwo operands: "i64", "Dyadic" ("none": no RootTwo call)
    op,      \* the operation applied last ("init": none yet)
    x, y, z, \* operands
    n,       \* the i64 scalar operand, or pow's u32 power argument
    out,     \* the value returned by the operation applied last
    pc,      \* position inside a function that loops (simplify, pow)
    sx, sk,  \* simplify's `mut x`, `mut k`
    result,  \* pow's `let mut result`
    power,   \* pow's shadowing `let mut power`
    iters,   \* loop iterations executed by the running call
    calls,   \* number of simplify applications started
    first    \* what the first simplify application returned

vars == <<T, op, x, y, z, n, out, pc, sx, sk, result, power, iters, calls, first>>

\* ------------------------------------------------------------------ bounds

MaxNum == 3
MaxExp == 2
MaxScalar == 2
MaxRawNum == 8
MaxRawExp == 4
MaxCoef == 6
MaxTripleCoef == 2
MaxDNum == 1
MaxDExp == 1
MaxPower == 4

\* ------------------------------------------------------------ constructors

Dyadic(num, k) == <<num, k>>

RootTwo(a, b) == <<a, b>>

\* ------------------------------------------------------------- i64 helpers

\* a & b on non-negative integers, bit by bit.
RECURSIVE BitAnd(_, _)
BitAnd(a, b) ==
    IF a = 0 \/ b = 0 THEN 0
    ELSE ((a % 2) * (b % 2)) + 2 * BitAnd(a \div 2, b \div 2)

\* 1i64 << s, for a shift that stays inside the word.
Shl1(s) == 2 ^ s

\* ------------------------------------------------------------------ Dyadic

\* simplify's loop condition without its `k > 0` conjunct.
SimplifyCondNoExpGuard(num, k) == num > 0 /\ BitAnd(num, num - 1) = 0

\* The loop condition of Dyadic::simplify; && evaluates left to right, so
\* x - 1 >= 0 whenever the bit test is reached.
SimplifyCond(num, k) == num > 0 /\ k > 0 /\ BitAnd(num, num - 1) = 0

\* The loop body of Dyadic::simplify: x /= 2; k -= 1 (x > 0 here, so the
\* truncating division is the floor division).
SimplifyBody(num, k) == <<num \div 2, k - 1>>

RECURSIVE simplify(_, _)
simplify(num, k) ==
    IF SimplifyCond(num, k)
    THEN simplify(SimplifyBody(num, k)[1], SimplifyBody(num, k)[2])
    ELSE Dyadic(num, k)

DyadicAdd(a, b) ==
    IF a[2] = b[2] THEN simplify(a[1] + b[1], a[2])
    ELSE LET lo == IF a[2] < b[2] THEN a ELSE b
             hi == IF a[2] < b[2] THEN b ELSE a
             k_delta == Shl1(hi[2] - lo[2])
         IN  simplify(lo[1] * k_delta + hi[1], hi[2])

DyadicNeg(a) == Dyadic(-a[1], a[2])

DyadicSub(a, b) == DyadicAdd(a, DyadicNeg(b))

DyadicMul(a, b) == simplify(a[1] * b[1], a[2] + b[2])

DyadicMulI64(a, m) == simplify(a[1] * m, a[2])

I64MulDyadic(m, a) == simplify(m * a[1], a[2])

\* ----------------------------------------------------------------- RootTwo

\* The coefficient type's own operators, as the trait bounds of the generic
\* impls resolve them for T = i64 and T = Dyadic.
TAdd(ty, a, b) == IF ty = "i64" THEN a + b ELSE DyadicAdd(a, b)

TSub(ty, a, b) == IF ty = "i64" THEN a - b ELSE DyadicSub(a, b)

TNeg(ty, a) == IF ty = "i64" THEN -a ELSE DyadicNeg(a)

TMul(ty, a, b) == IF ty = "i64" THEN a * b ELSE DyadicMul(a, b)

TMulI64(ty, a, m) == IF ty = "i64" THEN a * m ELSE DyadicMulI64(a, m)

RootTwoAdd(ty, a, b) == RootTwo(TAdd(ty, a[1], b[1]), TAdd(ty, a[2], b[2]))

RootTwoSub(ty, a, b) == RootTwo(TSub(ty, a[1], b[1]), TSub(ty, a[2], b[2]))

RootTwoNeg(ty, a) == RootTwo(TNeg(ty, a[1]), TNeg(ty, a[2]))

\* RootTwo's mul without the factor 2 that sqrt(2) * sqrt(2) contributes.
RootTwoMulNoDouble(ty, a, b) ==
    RootTwo(TAdd(ty, TMul(ty, a[1], b[1]), TMul(ty, a[2], b[2])),
            TAdd(ty, TMul(ty, a[1], b[2]), TMul(ty, a[2], b[1])))

\* self.1 * rhs.1 * 2 parses as (self.1 * rhs.1) * 2: T * T, then T * i64.
RootTwoMul(ty, a, b) ==
    RootTwo(TAdd(ty, TMul(ty, a[1], b[1]), TMulI64(ty, TMul(ty, a[2], b[2]), 2)),
            TAdd(ty, TMul(ty, a[1], b[2]), TMul(ty, a[2], b[1])))

adj2(ty, a) == RootTwo(a[1], TNeg(ty, a[2]))

\* pow's loop counter started at `power` instead of `power - 1`.
PowFirstPowerSame(p) == p

\* pow's `let mut power = power - 1`.
PowFirstPower(p) == p - 1

\* pow's `while power > 0`.
PowLoopCond(p) == p > 0

\* ------------------------------------------------------------ operand sets

DyadicOperands == (-MaxNum .. MaxNum) \X (0 .. MaxExp)

Scalars == -MaxScalar .. MaxScalar

RawPairs == (-MaxRawNum .. MaxRawNum) \X (0 .. MaxRawExp)

ZCoefs == -MaxCoef .. MaxCoef

DCoefs == (-MaxDNum .. MaxDNum) \X (0 .. MaxDExp)

ZRootTwos == ZCoefs \X ZCoefs

ZTripleCoefs == -MaxTripleCoef .. MaxTripleCoef

ZTripleRootTwos == ZTripleCoefs \X ZTripleCoefs

DRootTwos == DCoefs \X DCoefs

Powers == 0 .. MaxPower

\* Values of the variables a specification does not use.
NoLoop ==
    /\ pc = "idle" /\ sx = 0 /\ sk = 0 /\ result = RootTwo(0, 0) /\ power = 0
    /\ iters = 0 /\ calls = 0 /\ first = Dyadic(0, 0)

LoopUnchanged == UNCHANGED <<pc, sx, sk, result, power, iters, calls, first>>

\* ------------------------------------------- Dyadic arithmetic, one call each

DyadicInit ==
    /\ T = "none" /\ op = "init"
    /\ x \in DyadicOperands /\ y \in DyadicOperands /\ z \in DyadicOperands
    /\ n \in Scalars
    /\ out = Dyadic(0, 0)
    /\ NoLoop

DyadicReturn(name, value) ==
    /\ op' = name
    /\ out' = value
    /\ UNCHANGED <<T, x, y, z, n>>
    /\ LoopUnchanged

AddDyadic == DyadicReturn("add", DyadicAdd(x, y))

SubDyadic == DyadicReturn("sub", DyadicSub(x, y))

NegDyadic == DyadicReturn("neg", DyadicNeg(x))

MulDyadic == DyadicReturn("mul", DyadicMul(x, y))

MulDyadicI64 == DyadicReturn("mul_i64", DyadicMulI64(x, n))

MulI64Dyadic == DyadicReturn("i64_mul", I64MulDyadic(n, x))

DyadicNext ==
    \/ AddDyadic
    \/ SubDyadic
    \/ NegDyadic
    \/ MulDyadic
    \/ MulDyadicI64
    \/ MulI64Dyadic

SpecDyadic == DyadicInit /\ [][DyadicNext]_vars

\* --------------------------------------------- Dyadic::simplify, step by step

SimplifyInit ==
    /\ T = "none" /\ op = "init"
    /\ x \in RawPairs /\ y = Dyadic(0, 0) /\ z = Dyadic(0, 0)
    /\ n = 0
    /\ out = Dyadic(0, 0)
    /\ NoLoop

\* Dyadic::simplify(x.0, x.1) is entered.
SimplifyCall ==
    /\ pc = "idle" /\ calls = 0
    /\ sx' = x[1] /\ sk' = x[2]
    /\ iters' = 0 /\ calls' = 1 /\ pc' = "loop"
    /\ UNCHANGED <<T, op, x, y, z, n, out, result, power, first>>

\* One pass of the while loop.
SimplifyLoop ==
    /\ pc = "loop" /\ SimplifyCond(sx, sk)
    /\ sx' = SimplifyBody(sx, sk)[1] /\ sk' = SimplifyBody(sx, sk)[2]
    /\ iters' = iters + 1
    /\ UNCHANGED <<T, op, x, y, z, n, out, pc, result, power, calls, first>>

\* The loop condition fails: Dyadic(x, k) is returned.
SimplifyExit ==
    /\ pc = "loop" /\ ~SimplifyCond(sx, sk)
    /\ out' = Dyadic(sx, sk)
    /\ first' = IF calls = 1 THEN Dyadic(sx, sk) ELSE first
    /\ op' = "simplify" /\ pc' = "ret"
    /\ UNCHANGED <<T, x, y, z, n, sx, sk, result, power, iters, calls>>

\* Dyadic::simplify is applied to what it has just returned.
SimplifyAgain ==
    /\ pc = "ret" /\ calls = 1
    /\ sx' = out[1] /\ sk' = out[2]
    /\ iters' = 0 /\ calls' = 2 /\ pc' = "loop"
    /\ UNCHANGED <<T, op, x, y, z, n, out, result, power, first>>

SimplifyNext ==
    \/ SimplifyCall
    \/ SimplifyLoop
    \/ SimplifyExit
    \/ SimplifyAgain

SpecSimplify == SimplifyInit /\ [][SimplifyNext]_vars

\* ------------------------------------------- RootTwo arithmetic, one call each

ZRootTwoInit ==
    /\ T = "i64" /\ op = "init"
    /\ x \in ZRootTwos /\ y \in ZRootTwos /\ z = RootTwo(0, 0)
    /\ n = 0
    /\ out = RootTwo(0, 0)
    /\ NoLoop

ZTripleInit ==
    /\ T = "i64" /\ op = "init"
    /\ x \in ZTripleRootTwos /\ y \in ZTripleRootTwos /\ z \in ZTripleRootTwos
    /\ n = 0
    /\ out = RootTwo(0, 0)
    /\ NoLoop

DRootTwoInit ==
    /\ T = "Dyadic" /\ op = "init"
    /\ x \in DRootTwos /\ y \in DRootTwos /\ z \in DRootTwos
    /\ n = 0
    /\ out = RootTwo(Dyadic(0, 0), Dyadic(0, 0))
    /\ NoLoop

RootTwoReturn(name, value) ==
    /\ op' = name
    /\ out' = value
    /\ UNCHANGED <<T, x, y, z, n>>
    /\ LoopUnchanged

AddRootTwo == RootTwoReturn("add", RootTwoAdd(T, x, y))

SubRootTwo == RootTwoReturn("sub", RootTwoSub(T, x, y))

NegRootTwo == RootTwoReturn("neg", RootTwoNeg(T, x))

MulRootTwo == RootTwoReturn("mul", RootTwoMul(T, x, y))

Adj2RootTwo == RootTwoReturn("adj2", adj2(T, x))

RootTwoNext ==
    \/ AddRootTwo
    \/ SubRootTwo
    \/ NegRootTwo
    \/ MulRootTwo
    \/ Adj2RootTwo

\* RootTwo<i64> alone.
SpecZRootTwo == ZRootTwoInit /\ [][RootTwoNext]_vars

\* Both supported coefficient types.
SpecRootTwo == (ZTripleInit \/ DRootTwoInit) /\ [][RootTwoNext]_vars

\* ------------------------------------- Pow<u32> for RootTwo<i64>, step by step

PowInit ==
    /\ T = "i64" /\ op = "init"
    /\ x \in ZRootTwos /\ y = RootTwo(0, 0) /\ z = RootTwo(0, 0)
    /\ n \in Powers
    /\ out = RootTwo(0, 0)
    /\ NoLoop

\* pow(self, 0): the early return.
PowZero ==
    /\ pc = "idle" /\ op = "init" /\ n = 0
    /\ out' = RootTwo(0, 0)
    /\ op' = "pow" /\ pc' = "ret"
    /\ UNCHANGED <<T, x, y, z, n, sx, sk, result, power, iters, calls, first>>

\* pow(self, power) with power /= 0: the locals are set up.
PowStart ==
    /\ pc = "idle" /\ op = "init" /\ n # 0
    /\ result' = x
    /\ power' = PowFirstPower(n)
    /\ iters' = 0 /\ pc' = "loop"
    /\ UNCHANGED <<T, op, x, y, z, n, out, sx, sk, calls, first>>

\* One pass of the while loop.
PowLoop ==
    /\ pc = "loop" /\ PowLoopCond(power)
    /\ result' = RootTwoMul("i64", result, x)
    /\ power' = power - 1
    /\ iters' = iters + 1
    /\ UNCHANGED <<T, op, x, y, z, n, out, pc, sx, sk, calls, first>>

\* The loop condition fails: result is returned.
PowExit ==
    /\ pc = "loop" /\ ~PowLoopCond(power)
    /\ out' = result
    /\ op' = "pow" /\ pc' = "ret"
    /\ UNCHANGED <<T, x, y, z, n, sx, sk, result, power, iters, calls, first>>

PowNext ==
    \/ PowZero
    \/ PowStart
    \/ PowLoop
    \/ PowExit

SpecPow == PowInit /\ [][PowNext]_vars

\* ------------------------------------------------------------------ claims

\* The exponent every Dyadic of SpecDyadic can be scaled to.
CommonExp == 2 * MaxExp

\* value(d) * 2^CommonExp, an integer: the rational d.0 / 2^d.1 at a common
\* denominator.
Numer(d) == d[1] * (2 ^ (CommonExp - d[2]))

\* Canonical form as the specification words it: with a positive numerator
\* and a positive exponent, the numerator is odd.
IsCanonical(d) == (d[2] > 0 /\ d[1] > 0) => d[1] % 2 = 1

\* The product of m copies of a: Product(a, 1) = a,
\* Product(a, m + 1) = Product(a, m) * a.
RECURSIVE Product(_, _)
Product(a, m) ==
    IF m = 1 THEN a ELSE RootTwoMul("i64", Product(a, m - 1), a)

\* C1: Dyadic arithmetic is exact: x + y, x - y, x * y, x * n and n * x,
\* read as numerator / 2^exponent, denote value(x) + value(y),
\* value(x) - value(y), value(x) * value(y) and value(x) * n.
C1_ExactArithmetic ==
    /\ op = "add" => Numer(out) = Numer(x) + Numer(y)
    /\ op = "sub" => Numer(out) = Numer(x) - Numer(y)
    /\ op = "mul" => Numer(out) * (2 ^ CommonExp) = Numer(x) * Numer(y)
    /\ op \in {"mul_i64", "i64_mul"} => Numer(out) = Numer(x) * n

\* C2: every Dyadic returned by Add, Subtract, Multiply or MultiplyByInteger
\* is canonical: a positive numerator under a positive exponent is odd.
C2_ResultCanonical ==
    op \in {"add", "sub", "mul", "mul_i64", "i64_mul"} => IsCanonical(out)

\* C3: Dyadic addition is associative under structural equality, for
\* canonical x, y, z: (x + y) + z = x + (y + z).
C3_AddAssociative ==
    (op = "add" /\ IsCanonical(x) /\ IsCanonical(y) /\ IsCanonical(z))
        => DyadicAdd(out, z) = DyadicAdd(x, DyadicAdd(y, z))

\* C4: for every canonical Dyadic x, x - x is structurally the canonical
\* zero Dyadic(0, 0), also when x has a positive exponent.
C4_SubSelfIsZero ==
    (op = "sub" /\ y = x /\ IsCanonical(x)) => out = Dyadic(0, 0)

\* C5: RootTwo multiplication distributes over addition for RootTwo<i64>
\* and RootTwo<Dyadic>: x * (y + z) = x*y + x*z, structurally.
C5_MulDistributes ==
    op = "mul" =>
        RootTwoMul(T, x, RootTwoAdd(T, y, z)) = RootTwoAdd(T, out, RootTwoMul(T, x, z))

\* C6: conjugation is multiplicative for RootTwo<i64> and RootTwo<Dyadic>:
\* adj2(x * y) = adj2(x) * adj2(y), structurally.
C6_Adj2Multiplicative ==
    op = "mul" => adj2(T, out) = RootTwoMul(T, adj2(T, x), adj2(T, y))

\* C7: pow(x, 0) returns RootTwo(0, 0); for n >= 1 the loop runs n - 1 times,
\* counting `power` down to 0 without passing it, and pow(x, n) returns the
\* product of exactly n copies of x.
C7_PowIsRepeatedProduct ==
    /\ (pc = "ret" /\ n = 0) => out = RootTwo(0, 0)
    /\ (pc = "ret" /\ n >= 1) => (out = Product(x, n) /\ iters = n - 1)
    /\ pc = "loop" => (power >= 0 /\ iters + power = n - 1
                        /\ result = Product(x, iters + 1))

\* pow((1, 1), 3) has returned (7, 5) after two passes of the loop.
C7_Witness ==
    pc = "ret" /\ n = 3 /\ x = RootTwo(1, 1) /\ out = RootTwo(7, 5) /\ iters = 2

\* C9: over i64 coefficients (a, b) * (c, d) = (a*c + 2*(b*d), a*d + b*c),
\* and x * y = y * x.
C9_ZMulRingRule ==
    (T = "i64" /\ op = "mul") =>
        /\ out = RootTwo(x[1] * y[1] + 2 * (x[2] * y[2]), x[1] * y[2] + x[2] * y[1])
        /\ out = RootTwoMul("i64", y, x)

\* RootTwo(3, 4) * RootTwo(5, 6) has returned RootTwo(63, 38).
C9_Witness ==
    T = "i64" /\ op = "mul" /\ x = RootTwo(3, 4) /\ y = RootTwo(5, 6)
        /\ out = RootTwo(63, 38)

\* C10: Dyadic::simplify applied to its own output returns that output; a
\* call halves at most `exponent` times and never takes the exponent below
\* 0; a pair with numerator <= 0 or exponent = 0 is returned unchanged.
C10_SimplifyIdempotent ==
    /\ (pc = "ret" /\ calls = 2) => (out = first /\ iters = 0)
    /\ sk >= 0
    /\ (pc \in {"loop", "ret"} /\ calls = 1) => iters + sk = x[2]
    /\ (pc \in {"loop", "ret"} /\ calls = 2) => iters + sk = first[2]
    /\ (pc = "ret" /\ calls = 1 /\ (x[1] <= 0 \/ x[2] = 0)) => out = x
    /\ pc = "ret" => out = simplify(out[1], out[2])

\* simplify(8, 2) returned (2, 0) after two halvings, and the second
\* application has returned (2, 0) again.
C10_Witness ==
    pc = "ret" /\ calls = 2 /\ x = <<8, 2>> /\ first = Dyadic(2, 0)
        /\ out = Dyadic(2, 0)

====
